---- MODULE Spec2Model ----
(***************************************************************************)
(* Model of the move endpoints of the picking API                          *)
(* (services/picking-api/app/routers/moves.py): create_move and            *)
(* confirm_move acting on the move table, the move lines, the stock        *)
(* ledger and the audit log, one database transaction per request.         *)
(***************************************************************************)
EXTENDS Integers, Sequences, FiniteSets, TLC

VARIABLES moves, stock, audit, resp, txns, stock_rows, jobs, agent, printer

vars == <<moves, stock, audit, resp, txns, stock_rows, jobs, agent, printer>>

\* the print queue, the print agent and the printer
printvars == <<jobs, agent, printer>>

(* ------------------------------ bounds -------------------------------- *)

\* create_move is only enabled while fewer than MaxMoves moves exist.
MaxMoves == 1
\* largest requested quantity of a submitted line.
MaxQty == 1
\* largest number of lines in one confirm payload.
MaxBatch == 2

(* ------------------------ program constants --------------------------- *)

\* moves.py:19-24
MOVE_TYPE_MAPPING ==
  [dt \in {"PO", "SO", "TR", "RT"} |->
     CASE dt = "PO" -> [type |-> "inbound",  direction |-> 1]
       [] dt = "SO" -> [type |-> "outbound", direction |-> -1]
       [] dt = "TR" -> [type |-> "transfer", direction |-> -1]
       [] dt = "RT" -> [type |-> "return",   direction |-> 1]]

\* rbac.py:6-10
ROLE_HIERARCHY ==
  [r \in {"operator", "supervisor", "admin"} |->
     CASE r = "operator" -> 0 [] r = "supervisor" -> 1 [] r = "admin" -> 2]

\* schemas.py:118-119, the default of location_from and location_to
DefaultLocation == "MAIN"

\* the value of a nullable user column that was never assigned: create_move
\* does not pass approved_by to models.Move (moves.py:83-90)
NullUser == ""

(* --------------------------- input domains ---------------------------- *)

\* rows of the product table (read by _ensure_product, never written here)
Products == {"A"}
ItemCodes == {"A", "B"}
Locations == {DefaultLocation, "DOCK"}
\* the callers: an operator and a user whose role is not in ROLE_HIERARCHY
Users == {[id |-> "u1", role |-> "operator"], [id |-> "u2", role |-> "viewer"]}
DocTypeInputs == {"PO", "SO", "TR", "RT", "XX"}
DocNumbers == {"DOC-1"}

\* an absent optional field is <<>>, a present one is <<value>>
Absent == <<>>
OptInts(S) == {Absent} \cup {<<v>> : v \in S}

NewLineInput(i, q, qc, lt) ==
  [item_code |-> i, qty |-> q, qty_confirmed |-> qc,
   location_from |-> DefaultLocation, location_to |-> lt]

\* submitted lines that pass the request schema: location_from is left to
\* its default, and one line names a product that does not exist
LineInputs ==
  {NewLineInput("A", q, qc, lt) :
     q \in 1..MaxQty, qc \in OptInts(0..(MaxQty + 1)), lt \in Locations}
  \cup {NewLineInput("B", 1, Absent, DefaultLocation)}

\* submitted lines the request schema rejects: qty 0, negative qty_confirmed
BadLineInputs ==
  {NewLineInput("A", 0, Absent, DefaultLocation),
   NewLineInput("A", 1, <<-1>>, DefaultLocation)}

RECURSIVE SeqsUpTo(_, _)
SeqsUpTo(S, n) ==
  IF n = 0 THEN {<<>>}
  ELSE LET shorter == SeqsUpTo(S, n - 1)
       IN shorter \cup {Append(s, x) : s \in {t \in shorter : Len(t) = n - 1}, x \in S}

ConfirmPayloads ==
  {[lines |-> ls] : ls \in SeqsUpTo(LineInputs, MaxBatch)}
  \cup {[lines |-> <<lp>>] : lp \in BadLineInputs}

\* the payloads that tell apart the requests rejected before the loop over
\* payload.lines: an empty one, one with a line, and the invalid ones
SamplePayloads ==
  {[lines |-> <<>>], [lines |-> <<NewLineInput("A", 1, Absent, DefaultLocation)>>]}
  \cup {[lines |-> <<lp>>] : lp \in BadLineInputs}

\* The stock table outlives the service: at start-up it holds the rows that
\* earlier receipts left in it, at most one per (item_code, location) and
\* none negative. Here: any rows of the product, each holding up to what one
\* payload can confirm.
StockKeys == ItemCodes \X Locations
InitialStocks ==
  UNION {[K -> 0..(MaxQty * MaxBatch)] : K \in SUBSET (Products \X Locations)}

\* create payloads; a "lines" member is not a field of MoveCreateRequest
CreatePayloads ==
  [doc_type : DocTypeInputs, doc_number : DocNumbers,
   lines : {<<>>, <<NewLineInput("A", 1, Absent, "DOCK")>>}]

\* move ids a caller may name: the stored ones and one that is never stored
MoveIdInputs == 1..(MaxMoves + 1)

(* ----------------------------- responses ------------------------------ *)

NoBody == [status |-> "", type |-> "", doc_type |-> "", lines |-> <<>>]

Response(op, id, code, detail, applied, body) ==
  [op |-> op, id |-> id, code |-> code, detail |-> detail,
   applied |-> applied, body |-> body]

Ok == [code |-> 0, detail |-> ""]
HTTPException(code, detail) == [code |-> code, detail |-> detail]

(* ------------------------------ helpers ------------------------------- *)

\* rbac.py:13-19 without the comparison of the ranks
require_role_rank_ignored(user, role) ==
  IF role \notin DOMAIN ROLE_HIERARCHY
    THEN HTTPException(403, "auth.invalid_role")
  ELSE IF user.role \notin DOMAIN ROLE_HIERARCHY
    THEN HTTPException(403, "auth.unauthorized")
  ELSE Ok

\* rbac.py:13-19; the result is Ok or the 403 the function raises
require_role(user, role) ==
  IF role \notin DOMAIN ROLE_HIERARCHY
    THEN HTTPException(403, "auth.invalid_role")
  ELSE IF user.role \notin DOMAIN ROLE_HIERARCHY
          \/ ROLE_HIERARCHY[user.role] < ROLE_HIERARCHY[role]
    THEN HTTPException(403, "auth.unauthorized")
  ELSE Ok

\* schemas.py:109-111, the doc_type pattern of MoveCreateRequest
ValidMoveCreateRequest(payload) ==
  payload.doc_type \in {"PO", "SO", "TR", "RT"}

\* schemas.py:114-119, qty > 0 and qty_confirmed >= 0 when present
ValidMoveLineInput(lp) ==
  /\ lp.qty > 0
  /\ lp.qty_confirmed # Absent => lp.qty_confirmed[1] >= 0

\* schemas.py:122-123
ValidMoveConfirmRequest(payload) ==
  \A i \in 1..Len(payload.lines) : ValidMoveLineInput(payload.lines[i])

_resolve_move_type_return_as_inbound(doc_type) ==
  IF doc_type \in DOMAIN MOVE_TYPE_MAPPING
    THEN [err |-> Ok,
          value |-> IF doc_type = "RT" THEN MOVE_TYPE_MAPPING["PO"]
                    ELSE MOVE_TYPE_MAPPING[doc_type]]
    ELSE [err |-> HTTPException(400, "Tipo de documento invalido"),
          value |-> [type |-> "", direction |-> 0]]

\* moves.py:27-31
_resolve_move_type(doc_type) ==
  IF doc_type \in DOMAIN MOVE_TYPE_MAPPING
    THEN [err |-> Ok, value |-> MOVE_TYPE_MAPPING[doc_type]]
    ELSE [err |-> HTTPException(400, "Tipo de documento invalido"),
          value |-> [type |-> "", direction |-> 0]]

\* moves.py:34-37
_ensure_product(item_code) ==
  IF item_code \in Products THEN Ok
  ELSE HTTPException(404, "Producto no existe")

_build_move_response_without_lines(move) ==
  [status |-> move.status, type |-> move.type, doc_type |-> move.doc_type,
   lines |-> <<>>]

\* moves.py:52-72
_build_move_response(move) ==
  [status |-> move.status, type |-> move.type, doc_type |-> move.doc_type,
   lines |-> move.lines]

\* moves.py:143
EffectiveQty(lp) ==
  IF lp.qty_confirmed # Absent THEN lp.qty_confirmed[1] ELSE lp.qty

ExceedsRequestedNever(qty_confirmed, lp) == FALSE

\* moves.py:144
ExceedsRequested(qty_confirmed, lp) == qty_confirmed > lp.qty

InsufficientStockMissingOnly(st, key, qty_confirmed) == key \notin DOMAIN st

\* moves.py:161 and moves.py:197, the row is missing or holds too little
InsufficientStock(st, key, qty_confirmed) ==
  key \notin DOMAIN st \/ st[key] < qty_confirmed

TargetLocationAlwaysTo(direction, lp) == lp.location_to

\* moves.py:182
TargetLocation(direction, lp) ==
  IF direction > 0 THEN lp.location_to ELSE lp.location_from

\* moves.py:172-179 and moves.py:191-194: the row is created with qty 0 when
\* it does not exist, then delta is added to it
AddStock(st, key, delta) ==
  IF key \in DOMAIN st THEN [st EXCEPT ![key] = @ + delta]
  ELSE st @@ (key :> (0 + delta))

SubStockForgotten(st, key, delta) == st

\* moves.py:163 and moves.py:199
SubStock(st, key, delta) == [st EXCEPT ![key] = @ - delta]

\* moves.py:202-211
NewMoveLine(lp, qty_confirmed) ==
  [item_code |-> lp.item_code, qty |-> lp.qty, qty_confirmed |-> qty_confirmed,
   location_from |-> lp.location_from, location_to |-> lp.location_to]

AuditLineWithoutAdjustments(lp, qty_confirmed, adjustments) ==
  [item_code |-> lp.item_code, qty |-> lp.qty, qty_confirmed |-> qty_confirmed,
   location_from |-> lp.location_from, location_to |-> lp.location_to,
   adjustments |-> <<>>]

\* moves.py:212-221
AuditLine(lp, qty_confirmed, adjustments) ==
  [item_code |-> lp.item_code, qty |-> lp.qty, qty_confirmed |-> qty_confirmed,
   location_from |-> lp.location_from, location_to |-> lp.location_to,
   adjustments |-> adjustments]

\* The unit of work of one confirm_move request: the stock rows as the
\* session sees them, the lines and audit lines added so far, the flag
\* confirmed_all, the number of payload lines fully processed and the
\* exception raised, if any.
Work(st) ==
  [stock |-> st, lines |-> <<>>, audit_lines |-> <<>>, confirmed_all |-> TRUE,
   applied |-> 0, err |-> Ok]

Raise(w, code, detail) == [w EXCEPT !.err = HTTPException(code, detail)]

TransferLineUnchecked(w, lp, qty_confirmed) ==
  LET src == <<lp.item_code, lp.location_from>>
      dst == <<lp.item_code, lp.location_to>>
  IN IF lp.location_from = lp.location_to
       THEN Raise(w, 400, "El origen y destino no pueden ser iguales para una transferencia")
     ELSE IF src \notin DOMAIN w.stock
       THEN Raise(w, 400, "Stock insuficiente")
     ELSE [w EXCEPT
             !.stock = AddStock(SubStock(w.stock, src, qty_confirmed), dst, qty_confirmed),
             !.lines = Append(@, NewMoveLine(lp, qty_confirmed)),
             !.audit_lines = Append(@, AuditLine(lp, qty_confirmed,
                 <<[location |-> lp.location_from, delta |-> -qty_confirmed],
                   [location |-> lp.location_to, delta |-> qty_confirmed]>>)),
             !.applied = @ + 1]

\* moves.py:151-180, the transfer branch for one payload line
TransferLine(w, lp, qty_confirmed) ==
  LET src == <<lp.item_code, lp.location_from>>
      dst == <<lp.item_code, lp.location_to>>
  IN IF lp.location_from = lp.location_to
       THEN Raise(w, 400, "El origen y destino no pueden ser iguales para una transferencia")
     ELSE IF InsufficientStock(w.stock, src, qty_confirmed)
       THEN Raise(w, 400, "Stock insuficiente")
     ELSE [w EXCEPT
             !.stock = AddStock(SubStock(w.stock, src, qty_confirmed), dst, qty_confirmed),
             !.lines = Append(@, NewMoveLine(lp, qty_confirmed)),
             !.audit_lines = Append(@, AuditLine(lp, qty_confirmed,
                 <<[location |-> lp.location_from, delta |-> -qty_confirmed],
                   [location |-> lp.location_to, delta |-> qty_confirmed]>>)),
             !.applied = @ + 1]

\* moves.py:181-200, the branch of PO, SO and RT for one payload line
DirectedLine(w, lp, qty_confirmed, direction) ==
  LET target_location == TargetLocation(direction, lp)
      key == <<lp.item_code, target_location>>
  IN IF direction > 0
       THEN [w EXCEPT
               !.stock = AddStock(w.stock, key, qty_confirmed),
               !.lines = Append(@, NewMoveLine(lp, qty_confirmed)),
               !.audit_lines = Append(@, AuditLine(lp, qty_confirmed,
                   <<[location |-> target_location, delta |-> qty_confirmed]>>)),
               !.applied = @ + 1]
     ELSE IF InsufficientStock(w.stock, key, qty_confirmed)
       THEN Raise(w, 400, "Stock insuficiente")
     ELSE [w EXCEPT
             !.stock = SubStock(w.stock, key, qty_confirmed),
             !.lines = Append(@, NewMoveLine(lp, qty_confirmed)),
             !.audit_lines = Append(@, AuditLine(lp, qty_confirmed,
                 <<[location |-> target_location, delta |-> -qty_confirmed]>>)),
             !.applied = @ + 1]

ProcessLineProductLast(w, lp, doc_type, direction) ==
  LET qty_confirmed == EffectiveQty(lp)
      w1 == IF qty_confirmed < lp.qty THEN [w EXCEPT !.confirmed_all = FALSE] ELSE w
      w2 == IF doc_type = "TR" THEN TransferLine(w1, lp, qty_confirmed)
            ELSE DirectedLine(w1, lp, qty_confirmed, direction)
  IN IF ExceedsRequested(qty_confirmed, lp)
       THEN Raise(w, 400, "La cantidad confirmada no puede superar la cantidad solicitada")
     ELSE IF w2.err # Ok THEN w2
     ELSE IF _ensure_product(lp.item_code) # Ok
       THEN [w2 EXCEPT !.err = _ensure_product(lp.item_code)]
     ELSE w2

\* moves.py:141-221, the body of the loop for one payload line
ProcessLine(w, lp, doc_type, direction) ==
  LET qty_confirmed == EffectiveQty(lp)
      w1 == IF qty_confirmed < lp.qty THEN [w EXCEPT !.confirmed_all = FALSE] ELSE w
  IN IF _ensure_product(lp.item_code) # Ok
       THEN [w EXCEPT !.err = _ensure_product(lp.item_code)]
     ELSE IF ExceedsRequested(qty_confirmed, lp)
       THEN Raise(w, 400, "La cantidad confirmada no puede superar la cantidad solicitada")
     ELSE IF doc_type = "TR"
       THEN TransferLine(w1, lp, qty_confirmed)
     ELSE DirectedLine(w1, lp, qty_confirmed, direction)

\* moves.py:141, the loop over payload.lines from index i on; it stops at
\* the first exception
RECURSIVE ConfirmLoop(_, _, _, _, _)
ConfirmLoop(w, lines, i, doc_type, direction) ==
  IF i > Len(lines) \/ w.err # Ok THEN w
  ELSE ConfirmLoop(ProcessLine(w, lines[i], doc_type, direction),
                   lines, i + 1, doc_type, direction)

ConfirmPrecheckLinesFirst(move, payload) ==
  IF move.status = "approved"
    THEN HTTPException(400, "El movimiento ya fue aprobado")
  ELSE IF _resolve_move_type(move.doc_type).err # Ok
    THEN _resolve_move_type(move.doc_type).err
  ELSE IF Len(move.lines) # 0
    THEN HTTPException(409, "Las lineas ya fueron registradas para este movimiento")
  ELSE IF Len(payload.lines) = 0
    THEN HTTPException(400, "Debes enviar al menos una linea")
  ELSE Ok

\* the checks of moves.py:129-137 without the two that refuse a second
\* confirmation
ConfirmPrecheckConfirmAgain(move, payload) ==
  IF _resolve_move_type(move.doc_type).err # Ok
    THEN _resolve_move_type(move.doc_type).err
  ELSE IF Len(payload.lines) = 0
    THEN HTTPException(400, "Debes enviar al menos una linea")
  ELSE Ok

ConfirmPrecheckNoApproved(move, payload) ==
  IF _resolve_move_type(move.doc_type).err # Ok
    THEN _resolve_move_type(move.doc_type).err
  ELSE IF Len(payload.lines) = 0
    THEN HTTPException(400, "Debes enviar al menos una linea")
  ELSE IF Len(move.lines) # 0
    THEN HTTPException(409, "Las lineas ya fueron registradas para este movimiento")
  ELSE Ok

\* moves.py:129-137, the checks made before the loop
ConfirmPrecheck(move, payload) ==
  IF move.status = "approved"
    THEN HTTPException(400, "El movimiento ya fue aprobado")
  ELSE IF _resolve_move_type(move.doc_type).err # Ok
    THEN _resolve_move_type(move.doc_type).err
  ELSE IF Len(payload.lines) = 0
    THEN HTTPException(400, "Debes enviar al menos una linea")
  ELSE IF Len(move.lines) # 0
    THEN HTTPException(409, "Las lineas ya fueron registradas para este movimiento")
  ELSE Ok

\* moves.py:223-224 with the lines added at moves.py:202-211
ConfirmedMove(move, w, move_type) ==
  [move EXCEPT !.type = move_type,
               !.status = IF w.confirmed_all THEN "approved" ELSE "pending",
               !.lines = move.lines \o w.lines]

\* moves.py:227-238
ConfirmAudit(move, w, user) ==
  [entity |-> "move", entity_id |-> move.id, action |-> "confirmed",
   payload_json |-> [lines |-> w.audit_lines, doc_type |-> "", doc_number |-> "",
                     user_id |-> user.id],
   user_id |-> user.id]

\* moves.py:92-104; move.id is read before the row is flushed, when the
\* primary key is still unset: str(move.id) is "None", written here as 0
CreateAudit(payload, user) ==
  [entity |-> "move", entity_id |-> 0, action |-> "created",
   payload_json |-> [lines |-> <<>>, doc_type |-> payload.doc_type,
                     doc_number |-> payload.doc_number, user_id |-> user.id],
   user_id |-> user.id]

CommittedAlways(before, after, err) == after

\* moves.py:240: what the request leaves in the database. The session is
\* committed only when the loop ended without an exception; otherwise it is
\* closed without a commit and everything it changed is rolled back.
Committed(before, after, err) == IF err = Ok THEN after ELSE before

(* ------------------------------ actions ------------------------------- *)

\* the request sessions (deps.get_session gives each request its own); a
\* session is idle, or has run confirm_move up to the commit at moves.py:240
Sessions == {"s1", "s2"}

\* stock_rows counts the rows of the stock table per (item_code, location):
\* an insert adds a row for its key (moves.py:173-178, 192-193), no statement
\* deletes one
RowsAfter(rows, inserted) ==
  [key \in DOMAIN rows \cup inserted |->
     (IF key \in DOMAIN rows THEN rows[key] ELSE 0)
     + (IF key \in inserted THEN 1 ELSE 0)]

IdleTxn ==
  [phase |-> "idle", user |-> [id |-> "", role |-> ""], move_id |-> 0,
   payload |-> [lines |-> <<>>], snapshot |-> <<>>, w |-> Work(<<>>)]

\* agent.py:53-56: the agent is about to poll and holds no job
IdleAgent == [pc |-> "poll", jobs |-> <<>>, idx |-> 1]

\* no print job was enqueued, the agent has not polled, nothing was printed
NoPrinting ==
  /\ jobs = <<>>
  /\ agent = IdleAgent
  /\ printer = <<>>

Init ==
  /\ moves = <<>>
  /\ stock \in InitialStocks
  /\ audit = <<>>
  /\ resp = Response("none", 0, 0, "", 0, NoBody)
  /\ txns = [s \in Sessions |-> IdleTxn]
  /\ stock_rows = [key \in DOMAIN stock |-> 1]
  /\ NoPrinting

create_move_without_audit(user, payload) ==
  /\ Len(moves) < MaxMoves
  /\ LET resolved == _resolve_move_type(payload.doc_type)
         move == [id |-> Len(moves) + 1, type |-> resolved.value.type,
                  doc_type |-> payload.doc_type, doc_number |-> payload.doc_number,
                  status |-> "pending", created_by |-> user.id,
                  approved_by |-> NullUser, lines |-> <<>>]
     IN IF ~ValidMoveCreateRequest(payload)
          THEN /\ resp' = Response("create", 0, 422, "validation_error", 0, NoBody)
               /\ UNCHANGED <<moves, stock, audit>>
        ELSE IF require_role(user, "operator") # Ok
          THEN /\ resp' = Response("create", 0, 403, require_role(user, "operator").detail, 0, NoBody)
               /\ UNCHANGED <<moves, stock, audit>>
        ELSE IF resolved.err # Ok
          THEN /\ resp' = Response("create", 0, resolved.err.code, resolved.err.detail, 0, NoBody)
               /\ UNCHANGED <<moves, stock, audit>>
        ELSE /\ moves' = Append(moves, move)
             /\ audit' = audit
             /\ resp' = Response("create", move.id, 201, "", 0, _build_move_response(move))
             /\ UNCHANGED stock

\* moves.py:75-107
create_move(user, payload) ==
  /\ Len(moves) < MaxMoves
  /\ LET resolved == _resolve_move_type(payload.doc_type)
         move == [id |-> Len(moves) + 1, type |-> resolved.value.type,
                  doc_type |-> payload.doc_type, doc_number |-> payload.doc_number,
                  status |-> "pending", created_by |-> user.id,
                  approved_by |-> NullUser, lines |-> <<>>]
     IN IF ~ValidMoveCreateRequest(payload)
          THEN /\ resp' = Response("create", 0, 422, "validation_error", 0, NoBody)
               /\ UNCHANGED <<moves, stock, audit>>
        ELSE IF require_role(user, "operator") # Ok
          THEN /\ resp' = Response("create", 0, 403, require_role(user, "operator").detail, 0, NoBody)
               /\ UNCHANGED <<moves, stock, audit>>
        ELSE IF resolved.err # Ok
          THEN /\ resp' = Response("create", 0, resolved.err.code, resolved.err.detail, 0, NoBody)
               /\ UNCHANGED <<moves, stock, audit>>
        ELSE /\ moves' = Append(moves, move)
             /\ audit' = Append(audit, CreateAudit(payload, user))
             /\ resp' = Response("create", move.id, 201, "", 0, _build_move_response(move))
             /\ UNCHANGED stock

\* moves.py:121-242
confirm_move(user, move_id, payload) ==
  IF ~ValidMoveConfirmRequest(payload)
    THEN /\ resp' = Response("confirm", move_id, 422, "validation_error", 0, NoBody)
         /\ UNCHANGED <<moves, stock, audit>>
  ELSE IF require_role(user, "operator") # Ok
    THEN /\ resp' = Response("confirm", move_id, 403, require_role(user, "operator").detail, 0, NoBody)
         /\ UNCHANGED <<moves, stock, audit>>
  ELSE IF move_id \notin DOMAIN moves
    THEN /\ resp' = Response("confirm", move_id, 404, "Movimiento no encontrado", 0, NoBody)
         /\ UNCHANGED <<moves, stock, audit>>
  ELSE IF ConfirmPrecheck(moves[move_id], payload) # Ok
    THEN /\ resp' = Response("confirm", move_id, ConfirmPrecheck(moves[move_id], payload).code,
                             ConfirmPrecheck(moves[move_id], payload).detail, 0, NoBody)
         /\ UNCHANGED <<moves, stock, audit>>
  ELSE LET move == moves[move_id]
           resolved == _resolve_move_type(move.doc_type).value
           w == ConfirmLoop(Work(stock), payload.lines, 1, move.doc_type, resolved.direction)
           confirmed == ConfirmedMove(move, w, resolved.type)
       IN /\ stock' = Committed(stock, w.stock, w.err)
          /\ moves' = Committed(moves, [moves EXCEPT ![move_id] = confirmed], w.err)
          /\ audit' = Committed(audit, Append(audit, ConfirmAudit(move, w, user)), w.err)
          /\ resp' = IF w.err = Ok
                       THEN Response("confirm", move_id, 200, "", w.applied,
                                     _build_move_response(confirmed))
                       ELSE Response("confirm", move_id, w.err.code, w.err.detail,
                                     w.applied, NoBody)

\* moves.py:110-118
get_move(user, move_id) ==
  /\ resp' = IF require_role(user, "operator") # Ok
               THEN Response("get", move_id, 403, require_role(user, "operator").detail, 0, NoBody)
             ELSE IF move_id \notin DOMAIN moves
               THEN Response("get", move_id, 404, "Movimiento no encontrado", 0, NoBody)
             ELSE Response("get", move_id, 200, "", 0, _build_move_response(moves[move_id]))
  /\ UNCHANGED <<moves, stock, audit>>

\* in Spec the requests run one after the other: no session is left open
CreateMove ==
  /\ \E user \in Users, payload \in CreatePayloads : create_move(user, payload)
  /\ UNCHANGED <<txns, stock_rows, printvars>>

\* The lines of a payload are read only by the loop of confirm_move; a
\* request that is rejected before the loop is decided by the caller, the
\* move, and whether the payload is valid and non-empty, so for such a
\* request SamplePayloads yields every response ConfirmPayloads does.
PayloadsFor(user, move_id) ==
  IF /\ require_role(user, "operator") = Ok
     /\ move_id \in DOMAIN moves
     /\ ConfirmPrecheck(moves[move_id], [lines |-> <<NewLineInput("A", 1, Absent, DefaultLocation)>>]) = Ok
    THEN ConfirmPayloads
    ELSE SamplePayloads

ConfirmMove ==
  /\ \E user \in Users, move_id \in MoveIdInputs :
       \E payload \in PayloadsFor(user, move_id) :
         confirm_move(user, move_id, payload)
  /\ UNCHANGED <<txns, printvars>>
  /\ stock_rows' = RowsAfter(stock_rows, DOMAIN stock' \ DOMAIN stock)

GetMove ==
  /\ \E user \in Users, move_id \in MoveIdInputs : get_move(user, move_id)
  /\ UNCHANGED <<txns, stock_rows, printvars>>

Next == CreateMove \/ ConfirmMove \/ GetMove

Spec == Init /\ [][Next]_vars

(* ------------------------- shared definitions ------------------------- *)

Database == <<moves, stock, audit>>

\* the request was admitted: neither the request schema (422) nor the role
\* gate (403) rejected it
Admitted(r) == r.code \notin {403, 422}

ConfirmFailed(r) == r.op = "confirm" /\ r.code # 200
ConfirmSucceeded(r) == r.op = "confirm" /\ r.code = 200

AlreadyApprovedDetail == "El movimiento ya fue aprobado"

LineKey(l) == <<l.item_code, l.location_from, l.location_to>>

Qty(st, key) == IF key \in DOMAIN st THEN st[key] ELSE 0

RECURSIVE SumSeq(_)
SumSeq(ns) == IF ns = <<>> THEN 0 ELSE Head(ns) + SumSeq(Tail(ns))

\* the deltas an audit entry lists for stock entry key, summed
RECURSIVE ListedDelta(_, _)
ListedDelta(audit_lines, key) ==
  IF audit_lines = <<>> THEN 0
  ELSE LET al == Head(audit_lines)
       IN SumSeq([i \in 1..Len(al.adjustments) |->
                    IF <<al.item_code, al.adjustments[i].location>> = key
                      THEN al.adjustments[i].delta ELSE 0])
          + ListedDelta(Tail(audit_lines), key)

\* the sum of qty_confirmed over the lines that satisfy Sel
SumConfirmed(lines, Sel(_)) ==
  SumSeq([i \in 1..Len(lines) |-> IF Sel(lines[i]) THEN lines[i].qty_confirmed ELSE 0])

\* the lines a step added to move m
AddedLines(m) == SubSeq(moves'[m].lines, Len(moves[m].lines) + 1, Len(moves'[m].lines))

(* ------------------------------- C1 ----------------------------------- *)

\* C1: a confirm_move call that fails, at whatever step and for whatever
\* entry of the batch, leaves every stock entry, every move line, the move's
\* status and the audit log exactly as they were before the call.
C1_AllOrNothing == [][ConfirmFailed(resp') => UNCHANGED Database]_vars

\* a confirm_move call failed after an earlier entry of its batch had
\* already been applied to the session's stock rows and lines
C1_Witness == ConfirmFailed(resp) /\ resp.applied > 0

(* ------------------------------- C2 ----------------------------------- *)

\* C2: after any sequence of create_move and confirm_move calls every stock
\* entry has qty >= 0.
C2_StockNonNegative == \A key \in DOMAIN stock : stock[key] >= 0

\* an outbound or transfer confirmation took a positive amount out of a row
\* and left it at zero
C2_Witness ==
  /\ ConfirmSucceeded(resp)
  /\ resp.body.doc_type \in {"SO", "TR"}
  /\ \E i \in 1..Len(resp.body.lines) :
       /\ resp.body.lines[i].qty_confirmed > 0
       /\ <<resp.body.lines[i].item_code, resp.body.lines[i].location_from>> \in DOMAIN stock
       /\ stock[<<resp.body.lines[i].item_code, resp.body.lines[i].location_from>>] = 0

(* ------------------------------- C3 ----------------------------------- *)

\* C3: after any sequence of create_move and confirm_move calls every move
\* line satisfies 0 <= qty_confirmed <= qty.
C3_LineBounds ==
  \A m \in DOMAIN moves : \A i \in 1..Len(moves[m].lines) :
    /\ 0 <= moves[m].lines[i].qty_confirmed
    /\ moves[m].lines[i].qty_confirmed <= moves[m].lines[i].qty

\* a move holds a fully confirmed line and a line confirmed below its qty
C3_Witness ==
  \E m \in DOMAIN moves : \E i, j \in 1..Len(moves[m].lines) :
    /\ moves[m].lines[i].qty_confirmed = moves[m].lines[i].qty
    /\ moves[m].lines[j].qty_confirmed < moves[m].lines[j].qty

(* ------------------------------- C4 ----------------------------------- *)

ConfirmationApplied(m) ==
  \E a \in 1..Len(audit) : audit[a].action = "confirmed" /\ audit[a].entity_id = m

StatusOfLines(m) ==
  IF /\ Len(moves[m].lines) > 0
     /\ \A i \in 1..Len(moves[m].lines) :
          moves[m].lines[i].qty_confirmed = moves[m].lines[i].qty
    THEN "approved"
  ELSE IF ConfirmationApplied(m) THEN "pending"
  ELSE "draft"

\* C4: in every observable state the status of a move is the function of its
\* lines: approved exactly when it has a line and every line has
\* qty_confirmed = qty, otherwise pending if a confirmation has been applied
\* to it and draft if none has.
C4_StatusIsFunctionOfLines ==
  \A m \in DOMAIN moves : moves[m].status = StatusOfLines(m)

(* ------------------------------- C5 ----------------------------------- *)

\* the supplied lines as create_move is to store them
RECURSIVE Seeded(_)
Seeded(lines) ==
  IF lines = <<>> THEN <<>>
  ELSE <<NewMoveLine(Head(lines), 0)>> \o Seeded(Tail(lines))

\* C5: a successful create_move returns and persists a move whose status is
\* draft, with every supplied line stored with qty_confirmed = 0.
C5_CreateGivesDraft ==
  [][\A user \in Users, payload \in CreatePayloads :
       (create_move(user, payload) /\ resp'.code = 201) =>
         /\ resp'.body.status = "draft"
         /\ moves'[resp'.id].status = "draft"
         /\ moves'[resp'.id].lines = Seeded(payload.lines)
         /\ resp'.body.lines = Seeded(payload.lines)]_vars

(* ------------------------------- C6 ----------------------------------- *)

\* the payload names every line of the move that is not fully confirmed,
\* each with its remaining amount, and nothing else
CoversRemaining(move, payload) ==
  /\ \A i \in 1..Len(payload.lines) : \E j \in 1..Len(move.lines) :
       /\ LineKey(payload.lines[i]) = LineKey(move.lines[j])
       /\ payload.lines[i].qty = move.lines[j].qty
       /\ EffectiveQty(payload.lines[i]) = move.lines[j].qty - move.lines[j].qty_confirmed
  /\ \A j \in 1..Len(move.lines) :
       move.lines[j].qty_confirmed < move.lines[j].qty =>
         \E i \in 1..Len(payload.lines) : LineKey(payload.lines[i]) = LineKey(move.lines[j])

\* C6: a confirm that leaves some line partially confirmed puts the move in
\* pending, and from a pending move a later confirm_move call that covers the
\* remaining amount of every line succeeds and puts the move in approved.
C6_PendingReachesApproved ==
  [][/\ (ConfirmSucceeded(resp')
          /\ \E i \in 1..Len(moves'[resp'.id].lines) :
               moves'[resp'.id].lines[i].qty_confirmed < moves'[resp'.id].lines[i].qty)
        => moves'[resp'.id].status = "pending"
     /\ \A user \in Users, m \in DOMAIN moves, payload \in ConfirmPayloads :
          (/\ require_role(user, "operator") = Ok
           /\ moves[m].status = "pending"
           /\ Len(moves[m].lines) > 0
           /\ CoversRemaining(moves[m], payload)
           /\ confirm_move(user, m, payload))
          => (resp'.code = 200 /\ moves'[m].status = "approved")]_vars

(* ------------------------------- C7 ----------------------------------- *)

\* the amounts a successful confirm_move applied, as its audit entry lists them
AppliedLines == audit'[Len(audit')].payload_json.lines

\* C7: a successful confirm_move adds the effective amount of each entry to
\* the qty_confirmed of the line the entry matches (new = old + amount),
\* changes no requested qty, changes no line that the batch does not name,
\* and never lowers a qty_confirmed.
C7_ConfirmAccumulates ==
  [][ConfirmSucceeded(resp') =>
       LET before == moves[resp'.id].lines
           after == moves'[resp'.id].lines
       IN /\ \A a \in 1..Len(AppliedLines) : \E j \in 1..Len(before) :
               LineKey(AppliedLines[a]) = LineKey(before[j])
          /\ Len(after) = Len(before)
          /\ \A j \in 1..Len(before) :
               LET Same(l) == LineKey(l) = LineKey(before[j])
               IN /\ LineKey(after[j]) = LineKey(before[j])
                  /\ after[j].qty = before[j].qty
                  /\ after[j].qty_confirmed >= before[j].qty_confirmed
                  /\ after[j].qty_confirmed =
                       before[j].qty_confirmed + SumConfirmed(AppliedLines, Same)]_vars

(* ------------------------------- C8 ----------------------------------- *)

\* C8: once a move is approved it stays approved, and every later
\* confirm_move call on it changes neither its status, its lines, the stock
\* entries nor the audit log; a call admitted by the request schema and the
\* role gate is answered with the already-approved error.
C8_ApprovedIsTerminal ==
  [][\A m \in DOMAIN moves :
       moves[m].status = "approved" =>
         /\ moves'[m].status = "approved"
         /\ (resp'.op = "confirm" /\ resp'.id = m) =>
              /\ UNCHANGED Database
              /\ Admitted(resp') =>
                   (resp'.code = 400 /\ resp'.detail = AlreadyApprovedDetail)]_vars

\* a confirm_move call on an approved move was answered with the
\* already-approved error
C8_Witness ==
  /\ resp.op = "confirm"
  /\ resp.id \in DOMAIN moves
  /\ moves[resp.id].status = "approved"
  /\ resp.code = 400
  /\ resp.detail = AlreadyApprovedDetail

(* ------------------------------- C9 ----------------------------------- *)

\* C9: confirm_move on a move that has no registered lines fails and writes
\* nothing; confirm_move only proceeds on a move that already has a line.
C9_NoLinesRejected ==
  [][(/\ resp'.op = "confirm"
      /\ resp'.id \in DOMAIN moves
      /\ Len(moves[resp'.id].lines) = 0)
     => (resp'.code # 200 /\ UNCHANGED Database)]_vars

(* ------------------------------- C10 ---------------------------------- *)

\* the stock entry a confirmation of a PO, RT or SO line is to adjust
LedgerKey(doc_type, l) ==
  IF doc_type = "SO" THEN <<l.item_code, l.location_from>>
  ELSE <<l.item_code, l.location_to>>

LedgerSign(doc_type) == IF doc_type = "SO" THEN -1 ELSE 1

\* C10: a successful confirmation of amount n on a PO or RT move increases
\* the stock entry (item_code, location_to) by exactly n, on an SO move it
\* decreases the stock entry (item_code, location_from) by exactly n, and no
\* other stock entry is touched.
C10_DirectedStockEffect ==
  [][(ConfirmSucceeded(resp') /\ moves[resp'.id].doc_type \in {"PO", "RT", "SO"}) =>
       LET doc_type == moves[resp'.id].doc_type
           added == AddedLines(resp'.id)
       IN \A key \in StockKeys :
            LET At(l) == LedgerKey(doc_type, l) = key
            IN /\ Qty(stock', key) =
                    Qty(stock, key) + LedgerSign(doc_type) * SumConfirmed(added, At)
               /\ (\A i \in 1..Len(added) : ~At(added[i])) =>
                    /\ (key \in DOMAIN stock') = (key \in DOMAIN stock)
                    /\ key \in DOMAIN stock => stock'[key] = stock[key]]_vars

\* an outbound confirmation took a positive amount from a location_from that
\* differs from the line's location_to
C10_Witness ==
  /\ ConfirmSucceeded(resp)
  /\ resp.body.doc_type = "SO"
  /\ \E i \in 1..Len(resp.body.lines) :
       /\ resp.body.lines[i].qty_confirmed > 0
       /\ resp.body.lines[i].location_from # resp.body.lines[i].location_to

(* ------------------------------- C11 ---------------------------------- *)

InsufficientDetail == "Stock insuficiente"

\* the request reaches the loop over payload.lines
ReachesLoop(user, m, payload) ==
  /\ ValidMoveConfirmRequest(payload)
  /\ require_role(user, "operator") = Ok
  /\ m \in DOMAIN moves
  /\ ConfirmPrecheck(moves[m], payload) = Ok

SingleLinePayloads == {p \in ConfirmPayloads : Len(p.lines) = 1}

\* C11: a transfer confirmation whose source entry is missing or holds less
\* than the amount fails with insufficient stock and leaves both the source
\* and the destination entry as they were (the destination entry is not
\* created); no failed transfer call changes any stock entry, and a
\* successful one applies -amount at location_from and +amount at location_to
\* together.
C11_TransferAtomicPair ==
  [][/\ (ConfirmFailed(resp') /\ resp'.id \in DOMAIN moves
          /\ moves[resp'.id].doc_type = "TR") => UNCHANGED stock
     /\ \A user \in Users, m \in DOMAIN moves, payload \in SingleLinePayloads :
          LET lp == payload.lines[1]
              src == <<lp.item_code, lp.location_from>>
          IN (/\ moves[m].doc_type = "TR"
              /\ ReachesLoop(user, m, payload)
              /\ lp.item_code \in Products
              /\ EffectiveQty(lp) <= lp.qty
              /\ lp.location_from # lp.location_to
              /\ (src \notin DOMAIN stock \/ stock[src] < EffectiveQty(lp))
              /\ confirm_move(user, m, payload))
             => /\ resp'.code = 400
                /\ resp'.detail = InsufficientDetail
                /\ UNCHANGED stock
     /\ (ConfirmSucceeded(resp') /\ moves[resp'.id].doc_type = "TR") =>
          \A key \in StockKeys :
            LET added == AddedLines(resp'.id)
                From(l) == <<l.item_code, l.location_from>> = key
                To(l) == <<l.item_code, l.location_to>> = key
            IN Qty(stock', key) =
                 Qty(stock, key) - SumConfirmed(added, From) + SumConfirmed(added, To)]_vars

\* a transfer was refused for insufficient stock while its source entry
\* existed and its destination entry did not, and the destination entry is
\* still missing
C11_Witness ==
  /\ ConfirmFailed(resp)
  /\ resp.detail = InsufficientDetail
  /\ resp.id \in DOMAIN moves
  /\ moves[resp.id].doc_type = "TR"
  /\ <<"A", DefaultLocation>> \in DOMAIN stock
  /\ <<"A", "DOCK">> \notin DOMAIN stock

(* ------------------------------- C12 ---------------------------------- *)

RECURSIVE SumQty(_, _)
SumQty(st, keys) ==
  IF keys = {} THEN 0
  ELSE LET key == CHOOSE k \in keys : TRUE
       IN st[key] + SumQty(st, keys \ {key})

\* the stock of an item summed over all locations
TotalStock(st, item) == SumQty(st, {k \in DOMAIN st : k[1] = item})

ConservationSign(doc_type) ==
  CASE doc_type = "TR" -> 0
    [] doc_type \in {"PO", "RT"} -> 1
    [] doc_type = "SO" -> -1

\* C12: each successful confirm_move call changes the stock of an item,
\* summed over all locations, by 0 for a TR move, by plus the sum of the
\* confirmed amounts of that item for a PO or RT move, and by minus that sum
\* for an SO move.
C12_StockConservation ==
  [][ConfirmSucceeded(resp') =>
       \A item \in ItemCodes :
         LET Of(l) == l.item_code = item
         IN TotalStock(stock', item) =
              TotalStock(stock, item)
              + ConservationSign(moves[resp'.id].doc_type)
                * SumConfirmed(AddedLines(resp'.id), Of)]_vars

\* a transfer moved a positive amount between two locations
C12_Witness ==
  /\ ConfirmSucceeded(resp)
  /\ resp.body.doc_type = "TR"
  /\ \E i \in 1..Len(resp.body.lines) : resp.body.lines[i].qty_confirmed > 0

(* --------------------- concurrent confirm_move calls ------------------ *)

\* Two requests run confirm_move at the same time, each in its own session.
\* No select in confirm_move locks the rows it reads (moves.py:41-45,
\* 155-160, 166-171, 183-188 carry no with_for_update), so a session reads
\* the committed rows, changes its own copies, and writes them at its commit.

\* the request runs the whole loop without raising
ConfirmRuns(user, move_id, payload) ==
  /\ ReachesLoop(user, move_id, payload)
  /\ ConfirmLoop(Work(stock), payload.lines, 1, moves[move_id].doc_type,
                 _resolve_move_type(moves[move_id].doc_type).value.direction).err = Ok

\* moves.py:128-238 in session s: a request that raises is answered at once
\* and leaves nothing behind; otherwise the session holds the rows it read
\* and the changes it made to them, not yet committed
ConfirmBegin(s, user, move_id, payload) ==
  /\ txns[s].phase = "idle"
  /\ IF ConfirmRuns(user, move_id, payload)
       THEN /\ txns' = [txns EXCEPT ![s] =
                         [phase |-> "loaded", user |-> user, move_id |-> move_id,
                          payload |-> payload, snapshot |-> stock,
                          w |-> ConfirmLoop(Work(stock), payload.lines, 1,
                                            moves[move_id].doc_type,
                                            _resolve_move_type(moves[move_id].doc_type).value.direction)]]
            /\ UNCHANGED <<moves, stock, audit, resp, stock_rows>>
       ELSE /\ confirm_move(user, move_id, payload)
            /\ UNCHANGED <<txns, stock_rows>>

\* the stock rows the session created (moves.py:173-178, 192-193)
InsertedKeys(t) == DOMAIN t.w.stock \ DOMAIN t.snapshot

\* the flush of the session's stock rows: a created row is inserted, a
\* loaded row whose qty the session changed (moves.py:163, 179, 194, 199) is
\* updated to the value the session computed, any other row is left alone
Flush(st, t) ==
  [key \in DOMAIN st \cup InsertedKeys(t) |->
     IF key \in InsertedKeys(t) THEN t.w.stock[key]
     ELSE IF key \in DOMAIN t.snapshot /\ t.w.stock[key] # t.snapshot[key]
       THEN t.w.stock[key]
     ELSE st[key]]

UniqueViolationNever(st, t) == FALSE

\* models.py:23-32: an inserted row whose (item_code, location) another
\* session has inserted meanwhile breaks the unique index
UniqueViolation(st, t) == InsertedKeys(t) \cap DOMAIN st # {}

\* moves.py:240-242 in session s: the commit writes the session's stock
\* rows, its new lines, the move's type and status and the audit row, and
\* the refreshed move is returned; a unique violation fails the commit,
\* which rolls the session back and answers 500
ConfirmCommit(s) ==
  /\ txns[s].phase = "loaded"
  /\ txns' = [txns EXCEPT ![s] = IdleTxn]
  /\ LET t == txns[s]
         move == moves[t.move_id]
         confirmed == ConfirmedMove(move, t.w, _resolve_move_type(move.doc_type).value.type)
     IN IF UniqueViolation(stock, t)
          THEN /\ resp' = Response("confirm", t.move_id, 500, "Internal Server Error",
                                   t.w.applied, NoBody)
               /\ UNCHANGED <<moves, stock, audit, stock_rows>>
          ELSE /\ stock' = Flush(stock, t)
               /\ stock_rows' = RowsAfter(stock_rows, InsertedKeys(t))
               /\ moves' = [moves EXCEPT ![t.move_id] = confirmed]
               /\ audit' = Append(audit, ConfirmAudit(move, t.w, t.user))
               /\ resp' = Response("confirm", t.move_id, 200, "", t.w.applied,
                                   _build_move_response(confirmed))

\* a move as create_move leaves it
CreatedMove(id, doc_type) ==
  [id |-> id, type |-> _resolve_move_type(doc_type).value.type, doc_type |-> doc_type,
   doc_number |-> "DOC-1", status |-> "pending", created_by |-> "u1",
   approved_by |-> NullUser, lines |-> <<>>]

ConcDocTypes == {"PO", "SO", "TR"}

\* the stock the concurrent calls start from: one unit of the product at
\* the default location and no row for the other location
ConcInitialStock == <<"A", DefaultLocation>> :> 1

\* single lines that confirm their whole qty, to either location
ConcPayloads ==
  {[lines |-> <<NewLineInput("A", 1, Absent, lt)>>] : lt \in Locations}

\* the state after an operator created two moves
InitConc ==
  /\ \E d1, d2 \in ConcDocTypes :
       /\ moves = <<CreatedMove(1, d1), CreatedMove(2, d2)>>
       /\ audit = <<CreateAudit([doc_type |-> d1, doc_number |-> "DOC-1"], [id |-> "u1"]),
                    CreateAudit([doc_type |-> d2, doc_number |-> "DOC-1"], [id |-> "u1"])>>
       /\ resp = Response("create", 2, 201, "", 0, _build_move_response(CreatedMove(2, d2)))
  /\ stock = ConcInitialStock
  /\ txns = [s \in Sessions |-> IdleTxn]
  /\ stock_rows = [key \in DOMAIN ConcInitialStock |-> 1]
  /\ NoPrinting

ConfirmBegins ==
  /\ \E s \in Sessions, user \in Users, move_id \in DOMAIN moves, payload \in ConcPayloads :
       ConfirmBegin(s, user, move_id, payload)
  /\ UNCHANGED printvars

ConfirmCommits ==
  /\ \E s \in Sessions : ConfirmCommit(s)
  /\ UNCHANGED printvars

NextConc == ConfirmBegins \/ ConfirmCommits

SpecConc == InitConc /\ [][NextConc]_vars

(* ------------------------------- C13 ---------------------------------- *)

\* the deltas of every successful confirm_move call, as the audit log lists
\* them, summed for stock entry key
RECURSIVE ConfirmedDelta(_, _)
ConfirmedDelta(log, key) ==
  IF log = <<>> THEN 0
  ELSE (IF Head(log).action = "confirmed"
          THEN ListedDelta(Head(log).payload_json.lines, key) ELSE 0)
       + ConfirmedDelta(Tail(log), key)

\* C13: with confirm_move calls running concurrently on the same stock
\* entry, no ledger update is lost, i.e. every stock entry holds its initial
\* qty plus the deltas of the calls that succeeded, and no entry is negative.
C13_NoLostUpdate ==
  \A key \in StockKeys :
    /\ Qty(stock, key) = Qty(ConcInitialStock, key) + ConfirmedDelta(audit, key)
    /\ Qty(stock, key) >= 0

(* ------------------------------- C14 ---------------------------------- *)

ConfirmationsOf(m) ==
  {a \in 1..Len(audit) : audit[a].action = "confirmed" /\ audit[a].entity_id = m}

\* C14: with confirm_move calls running concurrently on the same move, the
\* move ends as after some sequential order of the calls: at most one of
\* them registered its lines (a second one finds the lines of the first, or
\* the approved status, and is refused), so the move's lines are the lines
\* of one confirmation and its status is the one that confirmation set.
C14_ConfirmsSerialize ==
  \A m \in DOMAIN moves :
    /\ Cardinality(ConfirmationsOf(m)) <= 1
    /\ \A a \in ConfirmationsOf(m) :
         /\ Len(moves[m].lines) = Len(audit[a].payload_json.lines)
         /\ \A i \in 1..Len(moves[m].lines) :
              /\ LineKey(moves[m].lines[i]) = LineKey(audit[a].payload_json.lines[i])
              /\ moves[m].lines[i].qty_confirmed = audit[a].payload_json.lines[i].qty_confirmed
    /\ ConfirmationsOf(m) = {} => moves[m].lines = <<>>

(* ------------------------------- C15 ---------------------------------- *)

\* the change of stock entry key that confirming amount n of line l of a
\* move of doc_type is to make
LineDelta(doc_type, l, n, key) ==
  IF doc_type = "TR"
    THEN (IF <<l.item_code, l.location_to>> = key THEN n ELSE 0)
         - (IF <<l.item_code, l.location_from>> = key THEN n ELSE 0)
  ELSE IF LedgerKey(doc_type, l) = key THEN LedgerSign(doc_type) * n
  ELSE 0

\* enough stock is on hand to confirm amount n of line l
CanApply(doc_type, l, n) ==
  \/ doc_type \in {"PO", "RT"}
  \/ Qty(stock, <<l.item_code, l.location_from>>) >= n

\* C15: after a first confirm_move call confirmed amount a of a line of
\* requested qty n, a second call with the rest b = n - a succeeds and leaves
\* the line and the stock entries as a single call with amount n would have:
\* the line at qty_confirmed = n and every stock entry moved by the remaining
\* b on top of the a already applied.
C15_SplitEqualsSingle ==
  [][\A user \in Users, m \in DOMAIN moves :
       (Len(moves[m].lines) = 1 /\ moves[m].lines[1].qty_confirmed < moves[m].lines[1].qty) =>
         LET l == moves[m].lines[1]
             b == l.qty - l.qty_confirmed
             payload == [lines |-> <<[item_code |-> l.item_code, qty |-> l.qty,
                                      qty_confirmed |-> <<b>>,
                                      location_from |-> l.location_from,
                                      location_to |-> l.location_to]>>]
         IN (/\ require_role(user, "operator") = Ok
             /\ CanApply(moves[m].doc_type, l, b)
             /\ confirm_move(user, m, payload))
            => /\ resp'.code = 200
               /\ moves'[m].lines = <<[l EXCEPT !.qty_confirmed = l.qty]>>
               /\ \A key \in StockKeys :
                    Qty(stock', key) = Qty(stock, key) + LineDelta(moves[m].doc_type, l, b, key)]_vars

(* ------------------------------- C16 ---------------------------------- *)

ExceedsRequestedDetail == "La cantidad confirmada no puede superar la cantidad solicitada"

\* C16: a confirm_move entry that matches a stored line of the move and asks
\* for more than that line's original qty fails with the
\* quantity-exceeds-requested error, and no stock entry is changed.
C16_ExceedsOriginalRejected ==
  [][\A user \in Users, m \in DOMAIN moves : \A j \in 1..Len(moves[m].lines) :
       LET l == moves[m].lines[j]
           payload == [lines |-> <<[item_code |-> l.item_code, qty |-> l.qty + 1,
                                    qty_confirmed |-> Absent,
                                    location_from |-> l.location_from,
                                    location_to |-> l.location_to]>>]
       IN (/\ require_role(user, "operator") = Ok
           /\ moves[m].status # "approved"
           /\ confirm_move(user, m, payload))
          => /\ resp'.code = 400
             /\ resp'.detail = ExceedsRequestedDetail
             /\ resp'.applied = 0
             /\ UNCHANGED stock]_vars

(* ------------------------------- C17 ---------------------------------- *)

\* C17: every successful confirm_move call appends exactly one audit entry,
\* with action confirmed, entity the move and actor the caller, whose payload
\* has one entry per line the call wrote and lists exactly the deltas the
\* call applied to each stock entry; a failed confirm_move call appends none.
C17_OneAuditEntryPerConfirm ==
  [][/\ ConfirmFailed(resp') => audit' = audit
     /\ ConfirmSucceeded(resp') =>
          /\ Len(audit') = Len(audit) + 1
          /\ SubSeq(audit', 1, Len(audit)) = audit
          /\ LET e == audit'[Len(audit')]
                 added == AddedLines(resp'.id)
             IN /\ e.action = "confirmed"
                /\ e.entity = "move"
                /\ e.entity_id = resp'.id
                /\ \A user \in Users :
                     (\E payload \in ConfirmPayloads : confirm_move(user, resp'.id, payload))
                       => (e.user_id = user.id /\ e.payload_json.user_id = user.id)
                /\ Len(e.payload_json.lines) = Len(added)
                /\ \A i \in 1..Len(added) :
                     /\ LineKey(e.payload_json.lines[i]) = LineKey(added[i])
                     /\ e.payload_json.lines[i].qty_confirmed = added[i].qty_confirmed
                /\ \A key \in StockKeys :
                     ListedDelta(e.payload_json.lines, key) = Qty(stock', key) - Qty(stock, key)]_vars

\* the last audit entry records a confirmed transfer of a positive amount
\* with its two adjustments
C17_Witness ==
  /\ ConfirmSucceeded(resp)
  /\ Len(audit) > 0
  /\ audit[Len(audit)].action = "confirmed"
  /\ \E i \in 1..Len(audit[Len(audit)].payload_json.lines) :
       /\ audit[Len(audit)].payload_json.lines[i].qty_confirmed > 0
       /\ Len(audit[Len(audit)].payload_json.lines[i].adjustments) = 2

(* ------------------------------- C18 ---------------------------------- *)

EmptyConfirmationDetail == "Debes enviar al menos una linea"

\* C18: confirm_move with an empty list of lines on a stored move that is
\* not approved, with or without registered lines, fails with the
\* at-least-one-line error and leaves moves, lines, stock and audit unchanged.
C18_EmptyConfirmationRejected ==
  [][\A user \in Users, m \in DOMAIN moves :
       (/\ require_role(user, "operator") = Ok
        /\ moves[m].status # "approved"
        /\ confirm_move(user, m, [lines |-> <<>>]))
       => /\ resp'.code = 400
          /\ resp'.detail = EmptyConfirmationDetail
          /\ UNCHANGED Database]_vars

\* an empty confirmation was refused on a pending move that has lines
C18_Witness ==
  /\ ConfirmFailed(resp)
  /\ resp.detail = EmptyConfirmationDetail
  /\ resp.id \in DOMAIN moves
  /\ moves[resp.id].status = "pending"
  /\ Len(moves[resp.id].lines) > 0

(* ------------------------------- C19 ---------------------------------- *)

NotFoundDetail == "Movimiento no encontrado"

\* C19: get_move answers not-found for an id that is not a stored move and
\* otherwise returns the move with every one of its current lines, each with
\* item_code, qty, qty_confirmed, location_from and location_to as stored; in
\* both cases, and when the caller is refused, it changes no move, line,
\* stock entry or audit entry.
C19_GetMoveReadsOnly ==
  [][/\ resp'.op = "get" => UNCHANGED Database
     /\ \A user \in Users, move_id \in MoveIdInputs :
          (require_role(user, "operator") = Ok /\ get_move(user, move_id)) =>
            IF move_id \notin DOMAIN moves
              THEN resp'.code = 404 /\ resp'.detail = NotFoundDetail
              ELSE /\ resp'.code = 200
                   /\ resp'.body.status = moves[move_id].status
                   /\ resp'.body.doc_type = moves[move_id].doc_type
                   /\ Len(resp'.body.lines) = Len(moves[move_id].lines)
                   /\ \A i \in 1..Len(moves[move_id].lines) :
                        LET stored == moves[move_id].lines[i]
                            shown == resp'.body.lines[i]
                        IN /\ shown.item_code = stored.item_code
                           /\ shown.qty = stored.qty
                           /\ shown.qty_confirmed = stored.qty_confirmed
                           /\ shown.location_from = stored.location_from
                           /\ shown.location_to = stored.location_to]_vars

\* get_move returned a stored move that has lines
C19_Witness ==
  /\ resp.op = "get"
  /\ resp.code = 200
  /\ Len(resp.body.lines) > 0
  /\ resp.body.lines = moves[resp.id].lines

(* ------------------------------- C20 ---------------------------------- *)

DerivedType(doc_type) ==
  CASE doc_type = "PO" -> "inbound"
    [] doc_type = "SO" -> "outbound"
    [] doc_type = "TR" -> "transfer"
    [] doc_type = "RT" -> "return"

\* C20: create_move with a doc_type outside {PO, SO, TR, RT} fails with a
\* validation error and creates no move and no audit entry; with a valid
\* doc_type the stored and returned type is inbound for PO, outbound for SO,
\* transfer for TR and return for RT, and stays so.
C20_DocTypeDerivesType ==
  [][/\ \A user \in Users, payload \in CreatePayloads :
          create_move(user, payload) =>
            /\ payload.doc_type \notin {"PO", "SO", "TR", "RT"} =>
                 (resp'.code = 422 /\ UNCHANGED Database)
            /\ resp'.code = 201 =>
                 /\ moves'[resp'.id].doc_type = payload.doc_type
                 /\ moves'[resp'.id].type = DerivedType(payload.doc_type)
                 /\ resp'.body.type = DerivedType(payload.doc_type)
     /\ \A m \in DOMAIN moves' : moves'[m].type = DerivedType(moves'[m].doc_type)]_vars

\* a return move was created and stored with the derived type return
C20_Witness ==
  /\ resp.op = "create"
  /\ resp.code = 201
  /\ resp.body.doc_type = "RT"
  /\ moves[resp.id].type = "return"

(* ------------------------------- C21 ---------------------------------- *)

\* C21: a create_move request whose list of lines is empty is rejected with
\* a validation error, and nothing is stored.
C21_CreateRequiresLines ==
  [][\A user \in Users, payload \in CreatePayloads :
       (payload.lines = <<>> /\ create_move(user, payload)) =>
         (resp'.code = 422 /\ UNCHANGED Database)]_vars

(* ------------------------------- C22 ---------------------------------- *)

\* C22: after any sequence of create_move and confirm_move calls no move has
\* two lines with the same key (item_code, location_from, location_to).
C22_LineKeysUnique ==
  \A m \in DOMAIN moves : \A i, j \in 1..Len(moves[m].lines) :
    LineKey(moves[m].lines[i]) = LineKey(moves[m].lines[j]) => i = j

(* ------------------------------ POST /auth/login ----------------------- *)

\* login is only enabled while the audit log holds fewer entries
MaxLoginAttempts == 3

\* rows of the user table; password stands for the plain password that
\* password_hash verifies
AuthUsers ==
  {[id |-> "u1", username |-> "tester", password |-> "s3cret", role |-> "admin", active |-> TRUE],
   [id |-> "u3", username |-> "idle", password |-> "s3cret", role |-> "operator", active |-> FALSE]}

UsernameInputs == {"tester", "idle", "ghost"}
PasswordInputs == {"s3cret", "wrong"}
\* how the client encodes the credentials: a JSON body or form data
Encodings == {"json", "form"}

\* auth.py:22
JWT_ALGORITHM == "HS256"

NoToken == [access_token |-> <<>>, token_type |-> ""]

\* routers/auth.py:37: the credentials are the body parameter
\* payload: schemas.LoginRequest, which is read from a JSON body only; the
\* fields of a form-encoded body are not bound to it
ParseLoginRequest(encoding, username, password) ==
  IF encoding = "json"
    THEN [err |-> Ok, value |-> [username |-> username, password |-> password]]
    ELSE [err |-> HTTPException(422, "validation_error"),
          value |-> [username |-> "", password |-> ""]]

\* routers/auth.py:38-39
FindUser(username) == {u \in AuthUsers : u.username = username}

\* auth.py:31-38
verify_password(plain_password, user) == plain_password = user.password

\* auth.py:45-49: the signed token, written as its algorithm and claims
create_access_token(data) == <<JWT_ALGORITHM, data.sub, data.role>>

\* schemas.py:10-12
Token(access_token) == [access_token |-> access_token, token_type |-> "bearer"]

\* routers/auth.py:15-33
_register_login_attempt(username, success, user_id, detail) ==
  [entity |-> "auth", entity_id |-> username,
   action |-> IF success THEN "login_success" ELSE "login_failed",
   payload_json |-> [username |-> username, success |-> success, detail |-> detail],
   user_id |-> user_id]

\* routers/auth.py:36-65
login(encoding, username, password) ==
  /\ Len(audit) < MaxLoginAttempts
  /\ UNCHANGED <<moves, stock, txns, stock_rows>>
  /\ LET parsed == ParseLoginRequest(encoding, username, password)
         found == FindUser(parsed.value.username)
         user == CHOOSE u \in found : TRUE
     IN IF parsed.err # Ok
          THEN /\ resp' = Response("login", 0, 422, parsed.err.detail, 0, NoToken)
               /\ UNCHANGED audit
        ELSE IF found = {} \/ ~verify_password(parsed.value.password, user)
          THEN /\ audit' = Append(audit, _register_login_attempt(
                              parsed.value.username, FALSE, "", "Credenciales invalidas"))
               /\ resp' = Response("login", 0, 401, "auth.invalid_credentials", 0, NoToken)
        ELSE IF ~user.active
          THEN /\ audit' = Append(audit, _register_login_attempt(
                              parsed.value.username, FALSE, user.id, "Usuario inactivo"))
               /\ resp' = Response("login", 0, 403, "auth.inactive_user", 0, NoToken)
        ELSE /\ audit' = Append(audit, _register_login_attempt(
                            parsed.value.username, TRUE, user.id, ""))
             /\ resp' = Response("login", 0, 200, "", 0,
                                 Token(create_access_token([sub |-> user.id, role |-> user.role])))

Login ==
  /\ \E encoding \in Encodings, username \in UsernameInputs, password \in PasswordInputs :
       login(encoding, username, password)
  /\ UNCHANGED printvars

InitAuth ==
  /\ moves = <<>>
  /\ stock = <<>>
  /\ audit = <<>>
  /\ resp = Response("none", 0, 0, "", 0, NoToken)
  /\ txns = [s \in Sessions |-> IdleTxn]
  /\ stock_rows = <<>>
  /\ NoPrinting

NextAuth == Login

SpecAuth == InitAuth /\ [][NextAuth]_vars

(* ------------------------------- C23 ---------------------------------- *)

\* C23: a login with the correct password of an existing active user
\* succeeds with token_type bearer and a non-empty access_token, whether the
\* credentials are sent as form data or as a JSON body.
C23_LoginAcceptsFormAndJson ==
  [][\A encoding \in Encodings, user \in AuthUsers :
       (user.active /\ login(encoding, user.username, user.password)) =>
         /\ resp'.code = 200
         /\ resp'.body.token_type = "bearer"
         /\ resp'.body.access_token # <<>>]_vars

(* ------------------------------- C24 ---------------------------------- *)

\* the move has a line with the key of entry lp
MatchesLine(move, lp) ==
  \E j \in 1..Len(move.lines) : LineKey(move.lines[j]) = LineKey(lp)

\* C24: confirm_move never adds a line to a move, and a call with an entry
\* whose key (item_code, location_from, location_to) matches no line of the
\* move fails with the not-found error of the line and writes nothing.
C24_EntriesMatchExistingLines ==
  [][/\ \A m \in DOMAIN moves : Len(moves'[m].lines) = Len(moves[m].lines)
     /\ \A user \in Users, m \in DOMAIN moves, payload \in SingleLinePayloads :
          (/\ ValidMoveConfirmRequest(payload)
           /\ require_role(user, "operator") = Ok
           /\ moves[m].status # "approved"
           /\ ~MatchesLine(moves[m], payload.lines[1])
           /\ confirm_move(user, m, payload))
          => (resp'.code = 404 /\ UNCHANGED Database)]_vars

(* ------------------------------- C25 ---------------------------------- *)

\* the amount of line key lp that is still to be confirmed on the move: the
\* rest of the stored line, or the whole requested qty when no line is stored
PendingAmount(move, lp) ==
  IF MatchesLine(move, lp)
    THEN LET j == CHOOSE k \in 1..Len(move.lines) : LineKey(move.lines[k]) = LineKey(lp)
         IN move.lines[j].qty - move.lines[j].qty_confirmed
    ELSE lp.qty

\* C25: the effective amount of an entry is its explicit qty_confirmed when
\* present and its requested qty otherwise; a call with an entry of
\* effective amount 0, or of an amount above the line's pending amount,
\* fails and writes nothing, and a successful call records the effective
\* amount.
C25_EffectiveAmountPositive ==
  [][\A user \in Users, m \in DOMAIN moves, payload \in SingleLinePayloads :
       LET lp == payload.lines[1]
           amount == IF lp.qty_confirmed # Absent THEN lp.qty_confirmed[1] ELSE lp.qty
       IN (/\ ValidMoveConfirmRequest(payload)
           /\ require_role(user, "operator") = Ok
           /\ moves[m].status # "approved"
           /\ confirm_move(user, m, payload))
          => /\ (amount <= 0 \/ amount > PendingAmount(moves[m], lp))
                  => (resp'.code # 200 /\ UNCHANGED Database)
             /\ resp'.code = 200 =>
                  /\ Len(AddedLines(m)) = 1
                  /\ AddedLines(m)[1].qty_confirmed = amount]_vars

(* ------------------------------- C26 ---------------------------------- *)

\* C26: a confirm_move call in which no entry applied a positive amount
\* fails and writes no state: every successful call, and every call that
\* changes a move, a line, a stock entry or the audit log, applied a
\* positive amount for at least one entry.
C26_PositiveAmountRequired ==
  [][(resp'.op = "confirm" /\ (resp'.code = 200 \/ ~UNCHANGED Database)) =>
       \E i \in 1..Len(AddedLines(resp'.id)) :
         AddedLines(resp'.id)[i].qty_confirmed > 0]_vars

(* ------------------------------- C27 ---------------------------------- *)

ProductNotFoundDetail == "Producto no existe"

\* C27: the product of an entry is checked before the entry's amount is
\* applied: a call whose first entry names an absent product fails with the
\* product-not-found error whatever the entry's quantities and locations,
\* with no entry applied and nothing written, and no line and no stock entry
\* of an absent product ever exists.
C27_ProductCheckedFirst ==
  [][/\ \A user \in Users, m \in DOMAIN moves, lp \in LineInputs,
          item \in ItemCodes \ Products :
          LET payload == [lines |-> <<[lp EXCEPT !.item_code = item]>>]
          IN (ReachesLoop(user, m, payload) /\ confirm_move(user, m, payload)) =>
               /\ resp'.code = 404
               /\ resp'.detail = ProductNotFoundDetail
               /\ resp'.applied = 0
               /\ UNCHANGED Database
     /\ (ConfirmFailed(resp') /\ resp'.detail = ProductNotFoundDetail) => UNCHANGED Database
     /\ \A key \in DOMAIN stock' : key[1] \in Products
     /\ \A m \in DOMAIN moves' : \A i \in 1..Len(moves'[m].lines) :
          moves'[m].lines[i].item_code \in Products]_vars

\* a call failed on an absent product in its second entry, after its first
\* entry had been applied in the session
C27_Witness ==
  /\ ConfirmFailed(resp)
  /\ resp.code = 404
  /\ resp.detail = ProductNotFoundDetail
  /\ resp.applied = 1

(* ------------------------------- C28 ---------------------------------- *)

\* C28: when a confirm_move call brings a move to approved, the move's
\* approved_by is the calling actor (the actor of the call's audit entry),
\* and approved_by is null for every move that is not approved.
C28_ApprovedByIsActor ==
  [][/\ (ConfirmSucceeded(resp') /\ moves'[resp'.id].status = "approved") =>
          /\ moves'[resp'.id].approved_by # NullUser
          /\ moves'[resp'.id].approved_by = audit'[Len(audit')].user_id
     /\ \A m \in DOMAIN moves' :
          moves'[m].status # "approved" => moves'[m].approved_by = NullUser]_vars

(* ------------------------------- C29 ---------------------------------- *)

\* the audit entry lists an adjustment of stock entry key
ListsAdjustment(entry, key) ==
  \E i \in 1..Len(entry.payload_json.lines) :
    \E a \in 1..Len(entry.payload_json.lines[i].adjustments) :
      <<entry.payload_json.lines[i].item_code,
        entry.payload_json.lines[i].adjustments[a].location>> = key

\* C29: with confirm_move calls running one after the other or concurrently,
\* the stock table holds at most one row per (item_code, location), a row
\* appears only in a step in which a confirm_move call succeeded and
\* adjusted that entry, and a row that exists is never removed.
C29_StockEntriesUniqueAndKept ==
  [][/\ DOMAIN stock_rows' = DOMAIN stock'
     /\ \A key \in DOMAIN stock_rows' : stock_rows'[key] = 1
     /\ DOMAIN stock \subseteq DOMAIN stock'
     /\ \A key \in DOMAIN stock' \ DOMAIN stock :
          /\ ConfirmSucceeded(resp')
          /\ Len(audit') = Len(audit) + 1
          /\ ListsAdjustment(audit'[Len(audit')], key)]_vars

\* of two sessions that both created the row of the same missing entry, one
\* committed it and the commit of the other was refused
C29_Witness ==
  /\ resp.op = "confirm"
  /\ resp.code = 500
  /\ \E key \in DOMAIN stock : key \notin DOMAIN ConcInitialStock /\ stock_rows[key] = 1

(* ------------------------------- C30 ---------------------------------- *)

CreateSucceeded(r) == r.op = "create" /\ r.code = 201

\* C30: the audit log only grows at its end, so that the log of an earlier
\* state is a prefix of the log of every later state; every successful
\* create_move or confirm_move call appends exactly one entry, of the move
\* entity, in the step that commits its change; and no move, line or stock
\* entry changes without that entry, nor is an entry appended by a call that
\* failed.
C30_AuditAppendOnly ==
  [][/\ Len(audit') >= Len(audit)
     /\ SubSeq(audit', 1, Len(audit)) = audit
     /\ (CreateSucceeded(resp') \/ ConfirmSucceeded(resp')) =>
          /\ Len(audit') = Len(audit) + 1
          /\ audit'[Len(audit')].entity = "move"
          /\ audit'[Len(audit')].action =
               (IF resp'.op = "create" THEN "created" ELSE "confirmed")
     /\ (moves' # moves \/ stock' # stock) => Len(audit') = Len(audit) + 1
     /\ Len(audit') # Len(audit) => (CreateSucceeded(resp') \/ ConfirmSucceeded(resp'))]_vars

\* the log holds the entry of a create_move call followed by the entry of a
\* confirm_move call
C30_Witness ==
  /\ Len(audit) = 2
  /\ audit[1].action = "created"
  /\ audit[2].action = "confirmed"
  /\ ConfirmSucceeded(resp)

(* -------------------- C31: error kinds and status codes ---------------- *)

\* the error kind of a failure of create_move, get_move or confirm_move, by
\* the message the endpoint raises (moves.py:27-49, 129-162); the 422 of
\* the request schema and the 403 of the role gate are raised outside the
\* engine and have no kind here
ErrorKind(detail) ==
  CASE detail \in {"Tipo de documento invalido",
                   EmptyConfirmationDetail, ExceedsRequestedDetail}
         -> "ValidationError"
    [] detail \in {NotFoundDetail, ProductNotFoundDetail} -> "NotFound"
    [] detail \in {AlreadyApprovedDetail,
                   "Las lineas ya fueron registradas para este movimiento",
                   "El origen y destino no pueden ser iguales para una transferencia"}
         -> "Conflict"
    [] detail = InsufficientDetail -> "InsufficientStock"
    [] OTHER -> "none"

\* a response that reports one of the four error kinds
EngineError(r) ==
  /\ r.op \in {"create", "get", "confirm"}
  /\ ErrorKind(r.detail) # "none"

\* C31: each error kind has a status code of its own: of two error responses
\* of the move endpoints that follow one another, the status codes are equal
\* exactly when the error kinds are equal.
C31_ErrorKindsHaveOwnCodes ==
  [][EngineError(resp) /\ EngineError(resp')
       => ((ErrorKind(resp.detail) = ErrorKind(resp'.detail))
             <=> (resp.code = resp'.code))]_vars

(* ------------------- C32: lines are registered once -------------------- *)

LinesRegisteredDetail == "Las lineas ya fueron registradas para este movimiento"

ValidCredentials(username, password) ==
  \E u \in AuthUsers : u.username = username /\ u.password = password /\ u.active

InactiveCredentials(username, password) ==
  \E u \in AuthUsers : u.username = username /\ u.password = password /\ ~u.active

\* C34: every login attempt, whichever way the client encodes the
\* credentials, appends exactly one auth audit entry, login_success or
\* login_failed; the answer carries a token only when the user exists, the
\* password verifies and the user is active; an unknown user or a wrong
\* password is answered 401 and an inactive user 403, both without a token.
C34_LoginAttemptsAudited ==
  [][\A encoding \in Encodings, username \in UsernameInputs, password \in PasswordInputs :
       login(encoding, username, password) =>
         /\ Len(audit') = Len(audit) + 1
         /\ SubSeq(audit', 1, Len(audit)) = audit
         /\ audit'[Len(audit')].entity = "auth"
         /\ audit'[Len(audit')].action \in {"login_success", "login_failed"}
         /\ (audit'[Len(audit')].action = "login_success") <=> (resp'.code = 200)
         /\ resp'.body # NoToken => ValidCredentials(username, password)
         /\ IF ValidCredentials(username, password) THEN TRUE
            ELSE IF InactiveCredentials(username, password)
              THEN resp'.code = 403 /\ resp'.body = NoToken
            ELSE resp'.code = 401 /\ resp'.body = NoToken]_vars

(* ======================= the print queue ============================== *)
(* services/picking-api/app/routers/printing.py, the print endpoints, and  *)
(* host/print-agent/agent.py, the agent that polls them.                   *)

\* an enqueue endpoint is only enabled while fewer than MaxJobs jobs exist.
MaxJobs == 1
\* ack_job with status error or retry is only enabled while the job's
\* attempts are below MaxAttempts.
MaxAttempts == 2
\* the agent writes a job to the printer only while the job was written
\* fewer than MaxWrites times.
MaxWrites == 2

\* printing.py:97, the default of limit; agent.py:56 sends the same value
DefaultLimit == 25

\* a null last_error column, an absent error field (schemas.py:102)
NullError == ""

\* the callers of the print and audit endpoints
PrintUsers == Users \cup {[id |-> "u3", role |-> "supervisor"]}

\* job ids of requests: the stored ones and one that is not stored
JobIdInputs == 1..(MaxJobs + 1)

\* schemas.py:100-102: status is any string, error is optional; a body
\* without status fails the schema
AckStatuses == {"sent", "error", "retry", "queued"}
AckPayloads ==
  {[status |-> <<s>>, error |-> e] : s \in AckStatuses, e \in {NullError, "E"}}
  \cup {[status |-> Absent, error |-> NullError]}

ValidPrintAckRequest(payload) == payload.status # Absent

\* schemas.py:78-81; copies 0 fails the schema
FromLocalPayloads ==
  {[payload_zpl |-> "^XA^XZ", copies |-> c] : c \in {0, 1}}

\* schemas.py:71-75; item_name is optional
ProductLabelPayloads ==
  {[item_code |-> i, item_name |-> Absent, copies |-> 1] : i \in ItemCodes}

\* schemas.py:75, 80: copies: int = Field(ge=1, le=10, default=1)
ValidCopies(payload) == payload.copies >= 1 /\ payload.copies <= 10

\* the item_name column of the product rows read at printing.py:32-36
ProductName(item_code) == <<"name of", item_code>>

\* zpl.py:16-21, the label as the values the template is filled with; the
\* date of the label is left out
render_product_label(item_code, item_name) == <<"label", item_code, item_name>>

\* the defaults of the columns of models.PrintJob that the enqueue endpoints
\* do not pass: a new job is queued, the status the default poll of
\* printing.py:96 asks for, was never attempted and has no error
PrintJobDefaults == [status |-> "queued", attempts |-> 0, last_error |-> NullError]

\* printing.py:46-50, 74-78: the row of a new job
NewPrintJob(id, payload_zpl, copies) ==
  [id |-> id, status |-> PrintJobDefaults.status, copies |-> copies,
   payload_zpl |-> payload_zpl, attempts |-> PrintJobDefaults.attempts,
   last_error |-> PrintJobDefaults.last_error]

\* printing.py:54-63, 82-91, 110-119
PrintJobResponse(job) == job

NoJob == [status |-> ""]

\* printing.py:24-63
enqueue_product_label(user, payload) ==
  /\ Len(jobs) < MaxJobs
  /\ LET job == NewPrintJob(Len(jobs) + 1,
                  render_product_label(payload.item_code,
                      IF payload.item_name = Absent THEN ProductName(payload.item_code)
                      ELSE payload.item_name[1]),
                  payload.copies)
     IN IF ~ValidCopies(payload)
          THEN /\ resp' = Response("enqueue", 0, 422, "validation_error", 0, NoJob)
               /\ UNCHANGED jobs
        ELSE IF require_role(user, "operator") # Ok
          THEN /\ resp' = Response("enqueue", 0, 403, require_role(user, "operator").detail, 0, NoJob)
               /\ UNCHANGED jobs
        ELSE IF payload.item_name = Absent /\ payload.item_code \notin Products
          THEN /\ resp' = Response("enqueue", 0, 404, "Producto no encontrado", 0, NoJob)
               /\ UNCHANGED jobs
        ELSE /\ jobs' = Append(jobs, job)
             /\ resp' = Response("enqueue", job.id, 200, "", 0, PrintJobResponse(job))

\* printing.py:66-91
enqueue_from_local(user, payload) ==
  /\ Len(jobs) < MaxJobs
  /\ LET job == NewPrintJob(Len(jobs) + 1, payload.payload_zpl, payload.copies)
     IN IF ~ValidCopies(payload)
          THEN /\ resp' = Response("enqueue", 0, 422, "validation_error", 0, NoJob)
               /\ UNCHANGED jobs
        ELSE IF require_role(user, "operator") # Ok
          THEN /\ resp' = Response("enqueue", 0, 403, require_role(user, "operator").detail, 0, NoJob)
               /\ UNCHANGED jobs
        ELSE /\ jobs' = Append(jobs, job)
             /\ resp' = Response("enqueue", job.id, 200, "", 0, PrintJobResponse(job))

\* printing.py:102-107: the jobs with the status asked for, oldest first, at
\* most limit of them
RECURSIVE SelectJobs(_, _, _)
SelectJobs(table, status_filter, limit) ==
  IF table = <<>> \/ limit = 0 THEN <<>>
  ELSE IF Head(table).status = status_filter
    THEN <<PrintJobResponse(Head(table))>> \o SelectJobs(Tail(table), status_filter, limit - 1)
  ELSE SelectJobs(Tail(table), status_filter, limit)

\* printing.py:94-121
get_jobs(user, status_filter, limit) ==
  /\ resp' = IF require_role(user, "operator") # Ok
               THEN Response("jobs", 0, 403, require_role(user, "operator").detail, 0, [jobs |-> <<>>])
             ELSE Response("jobs", 0, 200, "", 0,
                           [jobs |-> SelectJobs(jobs, status_filter, limit)])
  /\ UNCHANGED jobs

ack_job_counting_every_ack(user, job_id, payload) ==
  IF ~ValidPrintAckRequest(payload)
    THEN /\ resp' = Response("ack", job_id, 422, "validation_error", 0, NoJob)
         /\ UNCHANGED jobs
  ELSE IF require_role(user, "operator") # Ok
    THEN /\ resp' = Response("ack", job_id, 403, require_role(user, "operator").detail, 0, NoJob)
         /\ UNCHANGED jobs
  ELSE IF job_id \notin DOMAIN jobs
    THEN /\ resp' = Response("ack", job_id, 404, "Trabajo no encontrado", 0, NoJob)
         /\ UNCHANGED jobs
  ELSE /\ jobs[job_id].attempts < MaxAttempts
       /\ jobs' = [jobs EXCEPT ![job_id].status = payload.status[1],
                               ![job_id].last_error = payload.error,
                               ![job_id].attempts = @ + 1]
       /\ resp' = Response("ack", job_id, 200, "", 0, [status |-> payload.status[1]])

\* printing.py:124-142
ack_job(user, job_id, payload) ==
  IF ~ValidPrintAckRequest(payload)
    THEN /\ resp' = Response("ack", job_id, 422, "validation_error", 0, NoJob)
         /\ UNCHANGED jobs
  ELSE IF require_role(user, "operator") # Ok
    THEN /\ resp' = Response("ack", job_id, 403, require_role(user, "operator").detail, 0, NoJob)
         /\ UNCHANGED jobs
  ELSE IF job_id \notin DOMAIN jobs
    THEN /\ resp' = Response("ack", job_id, 404, "Trabajo no encontrado", 0, NoJob)
         /\ UNCHANGED jobs
  ELSE /\ payload.status[1] \in {"error", "retry"} => jobs[job_id].attempts < MaxAttempts
       /\ jobs' = [jobs EXCEPT ![job_id].status = payload.status[1],
                               ![job_id].last_error = payload.error,
                               ![job_id].attempts =
                                  IF payload.status[1] \in {"error", "retry"} THEN @ + 1 ELSE @]
       /\ resp' = Response("ack", job_id, 200, "", 0, [status |-> payload.status[1]])

\* the tables the print endpoints and the agent leave alone
movevars == <<moves, stock, audit, txns, stock_rows>>

EnqueueProductLabel ==
  /\ \E user \in PrintUsers, payload \in ProductLabelPayloads :
       enqueue_product_label(user, payload)
  /\ UNCHANGED <<movevars, agent, printer>>

EnqueueFromLocal ==
  /\ \E user \in PrintUsers, payload \in FromLocalPayloads :
       enqueue_from_local(user, payload)
  /\ UNCHANGED <<movevars, agent, printer>>

GetJobs ==
  /\ \E user \in PrintUsers, status_filter \in {"queued", "sent"}, limit \in {1, DefaultLimit} :
       get_jobs(user, status_filter, limit)
  /\ UNCHANGED <<movevars, agent, printer>>

AckJob ==
  /\ \E user \in PrintUsers, job_id \in JobIdInputs, payload \in AckPayloads :
       ack_job(user, job_id, payload)
  /\ UNCHANGED <<movevars, agent, printer>>

(* ---------------------------- the agent -------------------------------- *)

\* The agent's requests are answered by the print endpoints for the caller
\* the deployment gives the agent; agent.py itself attaches no credentials to
\* its session (agent.py:53), so a request the API refuses is one of the
\* failing outcomes below.
AgentUser == [id |-> "agent", role |-> "operator"]

\* requests raised instead of returning a response (connection error, or
\* raise_for_status on the poll, agent.py:57)
RequestRaised(op, id) == Response(op, id, 0, "request failed", 0, NoJob)

\* the API answered with an error status and applied nothing
RequestRefused(op, id) == Response(op, id, 500, "Internal Server Error", 0, NoJob)

\* agent.py:59, the loop moves on to the next job of the poll, and after the
\* last one to the sleep and the next poll (agent.py:72, 54)
NextJob ==
  IF agent.idx < Len(agent.jobs)
    THEN [agent EXCEPT !.pc = "send", !.idx = @ + 1]
    ELSE IdleAgent

Written(p, id) == IF id \in DOMAIN p THEN p[id] ELSE 0

\* agent.py:56-58: the poll for queued jobs
AgentPoll ==
  /\ agent.pc = "poll"
  /\ \/ /\ get_jobs(AgentUser, "queued", DefaultLimit)
        /\ agent' = IF resp'.body.jobs = <<>> THEN IdleAgent
                    ELSE [pc |-> "send", jobs |-> resp'.body.jobs, idx |-> 1]
     \/ /\ resp' = RequestRaised("jobs", 0)
        /\ agent' = IdleAgent
        /\ UNCHANGED jobs
  /\ UNCHANGED <<movevars, printer>>

\* agent.py:61-62 with send_raw_to_printer, agent.py:31-42: the job is
\* written to the printer, or the call raises and nothing is written
AgentSend ==
  /\ agent.pc = "send"
  /\ LET job == agent.jobs[agent.idx]
     IN \/ /\ Written(printer, job.id) < MaxWrites
           /\ printer' = [id \in DOMAIN printer \cup {job.id} |->
                            Written(printer, id) + (IF id = job.id THEN 1 ELSE 0)]
           /\ agent' = [agent EXCEPT !.pc = "ack_sent"]
        \/ /\ printer' = printer
           /\ agent' = [agent EXCEPT !.pc = "ack_error"]
  /\ UNCHANGED <<movevars, jobs, resp>>

\* agent.py:63: the acknowledgement of a written job; the response is not
\* looked at, an exception of the request goes to the handler of agent.py:64
AgentAckSent ==
  /\ agent.pc = "ack_sent"
  /\ LET job == agent.jobs[agent.idx]
     IN \/ /\ ack_job(AgentUser, job.id, [status |-> <<"sent">>, error |-> NullError])
           /\ agent' = NextJob
        \/ /\ resp' = RequestRefused("ack", job.id)
           /\ agent' = NextJob
           /\ UNCHANGED jobs
        \/ /\ resp' = RequestRaised("ack", job.id)
           /\ agent' = [agent EXCEPT !.pc = "ack_error"]
           /\ UNCHANGED jobs
  /\ UNCHANGED <<movevars, printer>>

\* agent.py:64-69: the acknowledgement of an exception; an exception of this
\* request leaves the loop over the jobs and is logged at agent.py:70-71
AgentAckError ==
  /\ agent.pc = "ack_error"
  /\ LET job == agent.jobs[agent.idx]
     IN \/ /\ ack_job(AgentUser, job.id, [status |-> <<"error">>, error |-> "E"])
           /\ agent' = NextJob
        \/ /\ resp' = RequestRefused("ack", job.id)
           /\ agent' = NextJob
           /\ UNCHANGED jobs
        \/ /\ resp' = RequestRaised("ack", job.id)
           /\ agent' = IdleAgent
           /\ UNCHANGED jobs
  /\ UNCHANGED <<movevars, printer>>

InitPrint ==
  /\ moves = <<>>
  /\ stock = <<>>
  /\ audit = <<>>
  /\ resp = Response("none", 0, 0, "", 0, NoJob)
  /\ txns = [s \in Sessions |-> IdleTxn]
  /\ stock_rows = <<>>
  /\ NoPrinting

NextPrint ==
  \/ EnqueueProductLabel
  \/ EnqueueFromLocal
  \/ GetJobs
  \/ AckJob
  \/ AgentPoll
  \/ AgentSend
  \/ AgentAckSent
  \/ AgentAckError

SpecPrint == InitPrint /\ [][NextPrint]_vars

PrintTypeOK == Len(jobs) <= MaxJobs

(* ------------------------- C35: ack_job -------------------------------- *)

\* C35: an ack_job call admitted by the request schema and the role gate, on
\* a stored job, sets the job's status and last_error to the acknowledged
\* values, adds exactly 1 to attempts when the acknowledged status is error
\* or retry and leaves attempts as it was otherwise, and changes nothing
\* else of the job and no other job; on an id that is not stored it fails
\* with 404 and changes no job. No step lowers the attempts of a job.
C35_AckJobUpdatesJob ==
  [][/\ \A j \in DOMAIN jobs : j \in DOMAIN jobs' /\ jobs'[j].attempts >= jobs[j].attempts
     /\ \A user \in PrintUsers \cup {AgentUser}, job_id \in JobIdInputs, payload \in AckPayloads :
          (ack_job(user, job_id, payload) /\ Admitted(resp')) =>
            IF job_id \in DOMAIN jobs
              THEN /\ resp'.code = 200
                   /\ jobs'[job_id].status = payload.status[1]
                   /\ jobs'[job_id].last_error = payload.error
                   /\ jobs'[job_id].attempts =
                        jobs[job_id].attempts
                          + (IF payload.status[1] \in {"error", "retry"} THEN 1 ELSE 0)
                   /\ jobs'[job_id].id = jobs[job_id].id
                   /\ jobs'[job_id].payload_zpl = jobs[job_id].payload_zpl
                   /\ jobs'[job_id].copies = jobs[job_id].copies
                   /\ \A j \in DOMAIN jobs \ {job_id} : jobs'[j] = jobs[j]
                   /\ Len(jobs') = Len(jobs)
              ELSE /\ resp'.code = 404
                   /\ jobs' = jobs]_vars

\* a job was acknowledged with an error, which counted as an attempt, and
\* then as sent, which did not
C35_Witness ==
  /\ resp.op = "ack"
  /\ resp.code = 200
  /\ resp.id \in DOMAIN jobs
  /\ jobs[resp.id].status = "sent"
  /\ jobs[resp.id].attempts = 1

(* --------------------- C36: sent is a terminal status ------------------ *)

\* C36: sent is a terminal status of a print job: no call of the print
\* endpoints takes a job whose status is sent back to queued, the status the
\* poll for queued jobs selects.
C36_SentIsTerminal ==
  [][\A j \in DOMAIN jobs :
       jobs[j].status = "sent" => jobs'[j].status # "queued"]_vars

(* ------------------ C37: the agent prints a job once ------------------- *)

AuditDefaultLimit == 100

\* audit.py:20-22: the newest entries first, at most limit of them
LatestFirst(log, limit) ==
  [i \in 1..(IF Len(log) < limit THEN Len(log) ELSE limit) |-> log[Len(log) + 1 - i]]

\* audit.py:13-35
list_audit(user, limit) ==
  /\ resp' = IF require_role(user, "supervisor") # Ok
               THEN Response("audit", 0, 403, require_role(user, "supervisor").detail, 0,
                             [entries |-> <<>>])
             ELSE Response("audit", 0, 200, "", 0, [entries |-> LatestFirst(audit, limit)])
  /\ UNCHANGED audit

ListAudit ==
  /\ \E user \in PrintUsers, limit \in {1, AuditDefaultLimit} : list_audit(user, limit)
  /\ UNCHANGED <<moves, stock, txns, stock_rows, printvars>>

\* the requests of the move endpoints by callers of every role: one create
\* payload per outcome of create_move, and the confirm payloads that tell the
\* outcomes of confirm_move apart
GateCreatePayloads == {p \in CreatePayloads : p.doc_type \in {"PO", "XX"} /\ p.lines = <<>>}

GateCreateMove ==
  /\ \E user \in PrintUsers, payload \in GateCreatePayloads : create_move(user, payload)
  /\ UNCHANGED <<txns, stock_rows, printvars>>

GateConfirmMove ==
  /\ \E user \in PrintUsers, move_id \in MoveIdInputs, payload \in SamplePayloads :
       confirm_move(user, move_id, payload)
  /\ UNCHANGED <<txns, printvars>>
  /\ stock_rows' = RowsAfter(stock_rows, DOMAIN stock' \ DOMAIN stock)

GateGetMove ==
  /\ \E user \in PrintUsers, move_id \in MoveIdInputs : get_move(user, move_id)
  /\ UNCHANGED <<txns, stock_rows, printvars>>

InitGate ==
  /\ moves = <<>>
  /\ stock = <<>>
  /\ audit = <<>>
  /\ resp = Response("none", 0, 0, "", 0, NoBody)
  /\ txns = [s \in Sessions |-> IdleTxn]
  /\ stock_rows = <<>>
  /\ NoPrinting

NextGate ==
  \/ GateCreateMove
  \/ GateConfirmMove
  \/ GateGetMove
  \/ EnqueueProductLabel
  \/ EnqueueFromLocal
  \/ GetJobs
  \/ AckJob
  \/ ListAudit

SpecGate == InitGate /\ [][NextGate]_vars

(* ------------------------------- C33 ----------------------------------- *)

\* the roles in the order of their rank
RankedRoles == <<"operator", "supervisor", "admin">>
RankOf(role) == CHOOSE i \in DOMAIN RankedRoles : RankedRoles[i] = role
Ranked(role) == \E i \in DOMAIN RankedRoles : RankedRoles[i] = role

\* roles of users and required roles: the ranked ones and two that are not
RoleInputs == {"operator", "supervisor", "admin", "viewer", ""}

Passes(user_role, role) ==
  /\ Ranked(role)
  /\ Ranked(user_role)
  /\ RankOf(user_role) >= RankOf(role)

\* the call was refused and wrote no move, line, stock entry, job or audit
\* entry
RefusedUnchanged ==
  /\ resp'.code \in {403, 422}
  /\ UNCHANGED <<moves, stock, audit, stock_rows, jobs>>

\* C33: require_role(user, role) passes exactly when role and the user's
\* role are among operator < supervisor < admin and the user's rank is at
\* least the required one, and raises 403 in every other case; a call of a
\* move, print-queue or audit endpoint by a caller who does not pass the
\* endpoint's role is refused (403, or 422 when the request schema fails
\* first) before any move, line, stock entry, job or audit entry is read or
\* written: it never answers from the tables and changes none of them.
C33_RoleGateFirst ==
  [][/\ \A user_role \in RoleInputs, role \in RoleInputs :
          LET raised == require_role([id |-> "u", role |-> user_role], role)
          IN IF Passes(user_role, role) THEN raised = Ok ELSE raised.code = 403
     /\ \A user \in PrintUsers :
          /\ ~Passes(user.role, "operator") =>
               /\ \A payload \in GateCreatePayloads :
                    create_move(user, payload) => RefusedUnchanged
               /\ \A move_id \in MoveIdInputs, payload \in SamplePayloads :
                    confirm_move(user, move_id, payload) => RefusedUnchanged
               /\ \A move_id \in MoveIdInputs :
                    get_move(user, move_id) => RefusedUnchanged
               /\ \A payload \in ProductLabelPayloads :
                    enqueue_product_label(user, payload) => RefusedUnchanged
               /\ \A payload \in FromLocalPayloads :
                    enqueue_from_local(user, payload) => RefusedUnchanged
               /\ \A status_filter \in {"queued", "sent"}, limit \in {1, DefaultLimit} :
                    get_jobs(user, status_filter, limit) => RefusedUnchanged
               /\ \A job_id \in JobIdInputs, payload \in AckPayloads :
                    ack_job(user, job_id, payload) => RefusedUnchanged
          /\ ~Passes(user.role, "supervisor") =>
               \A limit \in {1, AuditDefaultLimit} :
                 list_audit(user, limit) => RefusedUnchanged]_vars

\* a caller without a ranked role acknowledged a stored job, with a move and
\* its audit entry stored, and was refused
C33_Witness ==
  /\ resp.op = "ack"
  /\ resp.code = 403
  /\ resp.id \in DOMAIN jobs
  /\ moves # <<>>
  /\ audit # <<>>

====
